---- MODULE Spec2Model ----
(***************************************************************************)
(* Model of the fixed-timestep game loop of lib/game-loop/src/lib.rs:      *)
(* GameLoop::new, tick, remainder, state and add_accumulated_time, with    *)
(* the f32 arithmetic of as_secs_f32/remainder and a monotonic clock.      *)
(* Durations and instants are counted in nanoseconds.                      *)
(***************************************************************************)
EXTENDS Integers, Sequences, FiniteSets, TLC

\* ------------------------------------------------------------------ bounds
MaxAdds == 2        \* calls of add_accumulated_time in one run
MaxSteps == 2       \* calls of tick in one run
MaxAdvances == 1    \* times the monotonic clock is seen to move in one run
MaxTicks == 3       \* calls of tick in a run that only calls tick

\* --------------------------------------------------------------- constants
NANOSECONDS_PER_SECOND == 1000000000
updates_per_second == 100

\* Duration::from_millis
from_millis(ms) == ms * (NANOSECONDS_PER_SECOND \div 1000)

\* Durations handed to add_accumulated_time.
AddSet == {from_millis(6), from_millis(9), from_millis(10)}
\* Durations test_game_loop_tick_drains_accumulated_time hands to it.
ScenarioAddSet == {from_millis(10), from_millis(6), from_millis(16)}
\* Amounts by which the clock is seen to move between two program steps.
AdvanceSet == {from_millis(4), from_millis(10)}
\* Error values a consumer's update or render may return.
ErrVals == {"e1", "e2"}

\* -------------------------------------------------------------------- f32
\* An f32 is m * 2^e with 2^23 <= m < 2^24, or zero (m = 0, e = 0).
\* Only non-negative finite normal values occur.  Each operation is a
\* function of the values of its operands, so that an operand is evaluated
\* once however often the operation reads it.
F32 == [m : Nat, e : Int]
F32Zero == [m |-> 0, e |-> 0]

\* Number of bits of n.
BitLenOf[n \in Nat] == IF n = 0 THEN 0 ELSE 1 + BitLenOf[n \div 2]
BitLen(n) == BitLenOf[n]

\* Round (q + f) * 2^e, 0 <= f < 1, f # 0 iff sticky, to the nearest f32,
\* ties to even.
F32RoundOf[x \in Nat \X Int \X BOOLEAN] ==
    LET q == x[1]  e == x[2]  sticky == x[3] IN
    IF q = 0 THEN F32Zero
    ELSE LET bits == BitLen(q) IN
         IF bits <= 24
         THEN [m |-> q * 2^(24 - bits), e |-> e - (24 - bits)]
         ELSE LET s    == bits - 24
                  hi   == q \div 2^s
                  lo   == q % 2^s
                  half == 2^(s - 1)
                  up   == \/ lo > half
                          \/ lo = half /\ sticky
                          \/ lo = half /\ ~sticky /\ hi % 2 = 1
                  m    == IF up THEN hi + 1 ELSE hi
              IN IF m = 2^24 THEN [m |-> 2^23, e |-> e + s + 1]
                             ELSE [m |-> m, e |-> e + s]
F32Round(q, e, sticky) == F32RoundOf[<<q, e, sticky>>]

\* `n as f32` for an unsigned integer n.
as_f32(n) == F32Round(n, 0, FALSE)

\* n further quotient bits of r / d (r < d): <<quotient, remainder>>.
LongDivOf[x \in Nat \X Nat \X Nat \X Nat] ==
    LET r == x[1]  d == x[2]  n == x[3]  q == x[4]
    IN IF n = 0 THEN <<q, r>>
       ELSE IF 2 * r >= d THEN LongDivOf[<<2 * r - d, d, n - 1, 2 * q + 1>>]
                          ELSE LongDivOf[<<2 * r, d, n - 1, 2 * q>>]
LongDiv(r, d, n, q) == LongDivOf[<<r, d, n, q>>]

\* a / b on f32, b # 0.
F32DivOf[x \in F32 \X F32] ==
    LET a == x[1]  b == x[2] IN
    IF a.m = 0 THEN F32Zero
    ELSE LET qr == LongDiv(a.m % b.m, b.m, 26, a.m \div b.m)
         IN F32Round(qr[1], a.e - b.e - 26, qr[2] # 0)
F32Div(a, b) == F32DivOf[<<a, b>>]

\* a + b on f32.
F32AddOf[x \in F32 \X F32] ==
    LET a == x[1]  b == x[2] IN
    IF a.m = 0 THEN b
    ELSE IF b.m = 0 THEN a
    ELSE LET big   == IF a.e >= b.e THEN a ELSE b
             small == IF a.e >= b.e THEN b ELSE a
             e0    == big.e - 3
             d     == e0 - small.e
             sm    == IF d <= 0 THEN small.m * 2^(-d)
                      ELSE IF d >= 30 THEN 0
                      ELSE small.m \div 2^d
             lost  == IF d <= 0 THEN FALSE
                      ELSE IF d >= 30 THEN TRUE
                      ELSE small.m % 2^d # 0
         IN F32Round(big.m * 8 + sm, e0, lost)
F32Add(a, b) == F32AddOf[<<a, b>>]

\* a < b on non-negative f32.
F32LtOf[x \in F32 \X F32] ==
    LET a == x[1]  b == x[2] IN
    IF b.m = 0 THEN FALSE
    ELSE IF a.m = 0 THEN TRUE
    ELSE a.e < b.e \/ (a.e = b.e /\ a.m < b.m)
F32Lt(a, b) == F32LtOf[<<a, b>>]

F32One == as_f32(1)

\* Convert a duration to fractional seconds.
as_secs_f32(duration) ==
    F32Add(as_f32(duration \div NANOSECONDS_PER_SECOND),
           F32Div(as_f32(duration % NANOSECONDS_PER_SECOND),
                  as_f32(NANOSECONDS_PER_SECOND)))

\* ------------------------------------------------------------------ state
VARIABLES
    state,             \* the consumer: counts of completed updates and renders
    update_interval,   \* GameLoop::update_interval
    previous_tick,     \* GameLoop::previous_tick
    accumulated_time,  \* GameLoop::accumulated_time
    tick,              \* the local `tick` of a running GameLoop::tick
    now,               \* reading of the monotonic clock (Instant::now)
    debug_assertions,  \* whether the build keeps debug_assert!
    panicked,          \* a debug assertion failed; the thread unwound
    lastOp,            \* the method called last
    ret,               \* how that call ended
    err,               \* the Error a tick returned
    retval,            \* the f32 a remainder call returned
    calls,             \* consumer calls of the running or last tick, in order
    acc0,              \* accumulated_time at the start of that tick
    prev0,             \* previous_tick at the start of that tick
    elapsed,           \* elapsed time that tick added
    T_start,           \* accumulated_time when the last tick before ended
    T,                 \* sum of the add_accumulated_time calls since then
    measured,          \* sum of the elapsed times all ticks added
    manual,            \* sum of all add_accumulated_time calls
    outcome,           \* how the last finished tick ended
    first_ok,          \* start of the first successful tick; -1 before
    adds, steps, advances,  \* calls counted against the bounds
    scenario           \* progress through add 10ms, tick, add 6ms, tick,
                       \* add 16ms, tick on a fresh loop; -1 when left

vars == <<state, update_interval, previous_tick, accumulated_time, tick, now,
          debug_assertions, panicked, lastOp, ret, err, retval, calls, acc0,
          prev0, elapsed, T_start, T, measured, manual, outcome, first_ok,
          adds, steps, advances, scenario>>

driver == <<state, update_interval, previous_tick, accumulated_time>>
build  == <<debug_assertions, panicked>>
ghost  == <<calls, acc0, prev0, elapsed>>
sums   == <<T_start, T, measured>>
hist   == <<manual, outcome, first_ok>>
count  == <<adds, steps, advances>>

\* Option<Tick>::None and a Tick.
None == [some |-> FALSE, started_at |-> 0, state |-> "Idle"]
Some(t) == [some |-> TRUE, started_at |-> t.started_at, state |-> t.state]
NoTick == [live |-> FALSE, started_at |-> 0, state |-> "Idle"]
NoErr == [tag |-> "none", val |-> "none"]

\* Tick::default
Tick_default == [live |-> TRUE, started_at |-> now, state |-> "Idle"]

\* Error::Render built with the tag of Error::Update.
Error_Render_swapped(e) == [tag |-> "Update", val |-> e]

\* Error::Update and Error::Render
Error_Update(e) == [tag |-> "Update", val |-> e]
Error_Render(e) == [tag |-> "Render", val |-> e]

\* GameLoop::new taking the interval from the microseconds of a second.
new_micros ==
    /\ state = [update |-> 0, render |-> 0]
    /\ previous_tick = None
    /\ accumulated_time = 0
    /\ update_interval =
          (NANOSECONDS_PER_SECOND \div 1000) \div updates_per_second

\* GameLoop::new (with a default consumer)
new ==
    /\ state = [update |-> 0, render |-> 0]
    /\ previous_tick = None
    /\ accumulated_time = 0
    /\ update_interval = NANOSECONDS_PER_SECOND \div updates_per_second

Init ==
    /\ new
    /\ tick = NoTick
    /\ now = 0
    /\ debug_assertions \in BOOLEAN
    /\ panicked = FALSE
    /\ lastOp = "new" /\ ret = "Value" /\ err = NoErr /\ retval = F32Zero
    /\ calls = <<>> /\ acc0 = 0 /\ prev0 = None /\ elapsed = 0
    /\ T_start = 0 /\ T = 0 /\ measured = 0
    /\ manual = 0 /\ outcome = "none" /\ first_ok = -1
    /\ adds = 0 /\ steps = 0 /\ advances = 0
    /\ scenario = 0

\* No method is running and the thread is alive: a method may be called.
Callable == ~tick.live /\ ~panicked

\* The monotonic clock moves.  The program reads the clock in Tick::default
\* and in the `Idle` arm of tick only, so the clock is moved right before
\* these two reads: between two calls and between the two reads of a tick.
Advance(d) ==
    /\ ~panicked
    /\ tick.live => tick.state = "Idle"
    /\ now' = now + d
    /\ advances' = advances + 1
    /\ UNCHANGED <<hist, driver, tick, debug_assertions, panicked, lastOp, ret, err,
                   retval, ghost, sums, adds, steps, scenario>>

\* remainder() returning the accumulated time in seconds, undivided.
remainder_value_undivided ==
    as_secs_f32(accumulated_time)

\* The value GameLoop::remainder computes.
remainder_value ==
    F32Div(as_secs_f32(accumulated_time), as_secs_f32(update_interval))

\* The debug assertion written as `remainder <= 1.0`.
remainder_assert_le(r) ==
    debug_assertions => ~F32Lt(F32One, r)

\* The debug assertion written as `remainder > 0.0 && remainder < 1.0`.
remainder_assert_pos(r) ==
    debug_assertions => (F32Lt(F32Zero, r) /\ F32Lt(r, F32One))

\* The debug_assert! of GameLoop::remainder holds for the value r.
remainder_assert(r) ==
    debug_assertions => F32Lt(r, F32One)

\* tick(): `let mut tick = Tick::default();`
tick_begin ==
    /\ Callable
    /\ steps' = steps + 1
    /\ tick' = Tick_default
    /\ lastOp' = "tick" /\ ret' = "Running" /\ err' = NoErr
    /\ retval' = F32Zero
    /\ calls' = <<>>
    /\ acc0' = accumulated_time
    /\ prev0' = previous_tick
    /\ elapsed' = 0
    /\ UNCHANGED <<hist, driver, now, build, sums, adds, advances, scenario>>

\* The `Idle` arm measuring from the default instant when there is no
\* previous tick.
tick_Idle_always ==
    /\ tick.live /\ tick.state = "Idle"
    /\ LET previous_tick_duration == now - previous_tick.started_at
       IN /\ accumulated_time' = accumulated_time + previous_tick_duration
          /\ elapsed' = previous_tick_duration
          /\ measured' = measured + previous_tick_duration
    /\ tick' = [tick EXCEPT !.state = "Updating"]
    /\ UNCHANGED <<hist, state, update_interval, previous_tick, now, build, lastOp,
                   ret, err, retval, calls, acc0, prev0, T_start, T, count,
                   scenario>>

\* The `Idle` arm assigning the elapsed time instead of adding it.
tick_Idle_overwrites ==
    /\ tick.live /\ tick.state = "Idle"
    /\ LET previous_tick_duration ==
               IF previous_tick.some THEN now - previous_tick.started_at ELSE 0
       IN /\ accumulated_time' = IF previous_tick.some
                                 THEN previous_tick_duration
                                 ELSE accumulated_time
          /\ elapsed' = previous_tick_duration
          /\ measured' = measured + previous_tick_duration
    /\ tick' = [tick EXCEPT !.state = "Updating"]
    /\ UNCHANGED <<hist, state, update_interval, previous_tick, now, build,
                   lastOp, ret, err, retval, calls, acc0, prev0, T_start, T,
                   count, scenario>>

\* tick(): the `Idle` arm.
tick_Idle ==
    /\ tick.live /\ tick.state = "Idle"
    /\ LET previous_tick_duration ==
               IF previous_tick.some THEN now - previous_tick.started_at ELSE 0
       IN /\ accumulated_time' = accumulated_time + previous_tick_duration
          /\ elapsed' = previous_tick_duration
          /\ measured' = measured + previous_tick_duration
    /\ tick' = [tick EXCEPT !.state = "Updating"]
    /\ UNCHANGED <<hist, state, update_interval, previous_tick, now, build, lastOp,
                   ret, err, retval, calls, acc0, prev0, T_start, T, count,
                   scenario>>

\* The updating arm rendering after each update.
tick_Updating_ok_renders ==
    /\ tick.live /\ tick.state = "Updating"
    /\ accumulated_time >= update_interval
    /\ state' = [state EXCEPT !.update = @ + 1, !.render = @ + 1]
    /\ calls' = calls \o <<[op |-> "update", err |-> "none"],
                           [op |-> "render", err |-> "none"]>>
    /\ accumulated_time' = accumulated_time - update_interval
    /\ UNCHANGED <<hist, update_interval, previous_tick, tick, now, build, lastOp,
                   ret, err, retval, acc0, prev0, elapsed, sums, count,
                   scenario>>

\* The updating arm emptying the accumulator after an update.
tick_Updating_ok_resets ==
    /\ tick.live /\ tick.state = "Updating"
    /\ accumulated_time >= update_interval
    /\ state' = [state EXCEPT !.update = @ + 1]
    /\ calls' = Append(calls, [op |-> "update", err |-> "none"])
    /\ accumulated_time' = 0
    /\ UNCHANGED <<hist, update_interval, previous_tick, tick, now, build, lastOp,
                   ret, err, retval, acc0, prev0, elapsed, sums, count,
                   scenario>>

\* tick(): the `Updating if accumulated_time >= update_interval` arm, the
\* consumer's update succeeding.
tick_Updating_ok ==
    /\ tick.live /\ tick.state = "Updating"
    /\ accumulated_time >= update_interval
    /\ state' = [state EXCEPT !.update = @ + 1]
    /\ calls' = Append(calls, [op |-> "update", err |-> "none"])
    /\ accumulated_time' = accumulated_time - update_interval
    /\ UNCHANGED <<hist, update_interval, previous_tick, tick, now, build, lastOp,
                   ret, err, retval, acc0, prev0, elapsed, sums, count,
                   scenario>>

\* The failing update deducted from the accumulator all the same.
tick_Updating_err_deducts(e) ==
    /\ tick.live /\ tick.state = "Updating"
    /\ accumulated_time >= update_interval
    /\ calls' = Append(calls, [op |-> "update", err |-> e])
    /\ ret' = "Err" /\ err' = Error_Update(e)
    /\ tick' = NoTick
    /\ accumulated_time' = accumulated_time - update_interval
    /\ T_start' = accumulated_time' /\ T' = 0
    /\ scenario' = -1
    /\ outcome' = "Update" /\ UNCHANGED <<manual, first_ok>>
    /\ UNCHANGED <<state, update_interval, previous_tick, now, build, lastOp,
                   retval, acc0, prev0, elapsed, measured, count>>

\* The failing update emptying the accumulator.
tick_Updating_err_clears(e) ==
    /\ tick.live /\ tick.state = "Updating"
    /\ accumulated_time >= update_interval
    /\ calls' = Append(calls, [op |-> "update", err |-> e])
    /\ ret' = "Err" /\ err' = Error_Update(e)
    /\ tick' = NoTick
    /\ accumulated_time' = 0
    /\ T_start' = 0 /\ T' = 0
    /\ scenario' = -1
    /\ outcome' = "Update" /\ UNCHANGED <<manual, first_ok>>
    /\ UNCHANGED <<state, update_interval, previous_tick, now, build, lastOp,
                   retval, acc0, prev0, elapsed, measured, count>>

\* The same arm, the consumer's update returning Err(e): `?` returns.
tick_Updating_err(e) ==
    /\ tick.live /\ tick.state = "Updating"
    /\ accumulated_time >= update_interval
    /\ calls' = Append(calls, [op |-> "update", err |-> e])
    /\ ret' = "Err" /\ err' = Error_Update(e)
    /\ tick' = NoTick
    /\ T_start' = accumulated_time /\ T' = 0
    /\ scenario' = -1
    /\ outcome' = "Update" /\ UNCHANGED <<manual, first_ok>>
    /\ UNCHANGED <<driver, now, build, lastOp, retval, acc0, prev0, elapsed,
                   measured, count>>

\* The plain arm taken as soon as no more than one interval is left.
tick_Updating_done_gt ==
    /\ tick.live /\ tick.state = "Updating"
    /\ ~(accumulated_time > update_interval)
    /\ tick' = [tick EXCEPT !.state = "Rendering"]
    /\ UNCHANGED <<hist, driver, now, build, lastOp, ret, err, retval, ghost, sums,
                   count, scenario>>

\* The plain arm returning without a render when no update ran.
tick_Updating_done_skips ==
    /\ tick.live /\ tick.state = "Updating"
    /\ ~(accumulated_time >= update_interval)
    /\ IF calls = <<>>
       THEN /\ previous_tick' = Some(tick)
            /\ ret' = "Ok"
            /\ tick' = NoTick
            /\ T_start' = accumulated_time /\ T' = 0
            /\ scenario' = -1
            /\ outcome' = "Ok" /\ UNCHANGED manual
            /\ first_ok' = IF first_ok = -1 THEN tick.started_at ELSE first_ok
            /\ UNCHANGED <<state, update_interval, accumulated_time, now,
                           build, lastOp, err, retval, ghost, measured, count>>
       ELSE /\ tick' = [tick EXCEPT !.state = "Rendering"]
            /\ UNCHANGED <<hist, driver, now, build, lastOp, ret, err, retval,
                           ghost, sums, count, scenario>>

\* The plain arm leaving the tick in Updating.
tick_Updating_done_stays ==
    /\ tick.live /\ tick.state = "Updating"
    /\ ~(accumulated_time >= update_interval)
    /\ tick' = tick
    /\ UNCHANGED <<hist, driver, now, build, lastOp, ret, err, retval, ghost,
                   sums, count, scenario>>

\* tick(): the plain `Updating` arm.
tick_Updating_done ==
    /\ tick.live /\ tick.state = "Updating"
    /\ ~(accumulated_time >= update_interval)
    /\ tick' = [tick EXCEPT !.state = "Rendering"]
    /\ UNCHANGED <<hist, driver, now, build, lastOp, ret, err, retval, ghost, sums,
                   count, scenario>>

\* The scenario advances at a successful tick.
scenario_tick ==
    IF scenario \in {1, 3, 5} THEN scenario + 1 ELSE -1

\* tick(): the `Rendering` arm, the consumer's render succeeding.
tick_Rendering_ok ==
    /\ state' = [state EXCEPT !.render = @ + 1]
    /\ calls' = Append(calls, [op |-> "render", err |-> "none"])
    /\ previous_tick' = Some(tick)
    /\ ret' = "Ok"
    /\ tick' = NoTick
    /\ T_start' = accumulated_time /\ T' = 0
    /\ scenario' = scenario_tick
    /\ outcome' = "Ok" /\ UNCHANGED manual
    /\ first_ok' = IF first_ok = -1 THEN tick.started_at ELSE first_ok
    /\ UNCHANGED <<update_interval, accumulated_time, now, build, lastOp, err,
                   retval, acc0, prev0, elapsed, measured, count>>

\* The rendering arm recording the tick before render is known to succeed.
tick_Rendering_err_records(e) ==
    /\ calls' = Append(calls, [op |-> "render", err |-> e])
    /\ ret' = "Err" /\ err' = Error_Render(e)
    /\ previous_tick' = Some(tick)
    /\ tick' = NoTick
    /\ T_start' = accumulated_time /\ T' = 0
    /\ scenario' = -1
    /\ outcome' = "Render" /\ UNCHANGED <<manual, first_ok>>
    /\ UNCHANGED <<state, update_interval, accumulated_time, now, build,
                   lastOp, retval, acc0, prev0, elapsed, measured, count>>

\* The same arm, the consumer's render returning Err(e): `?` returns.
tick_Rendering_err(e) ==
    /\ calls' = Append(calls, [op |-> "render", err |-> e])
    /\ ret' = "Err" /\ err' = Error_Render(e)
    /\ tick' = NoTick
    /\ T_start' = accumulated_time /\ T' = 0
    /\ scenario' = -1
    /\ outcome' = "Render" /\ UNCHANGED <<manual, first_ok>>
    /\ UNCHANGED <<driver, now, build, lastOp, retval, acc0, prev0, elapsed,
                   measured, count>>

\* The same arm, the debug assertion of self.remainder() failing.
tick_Rendering_panic ==
    /\ ret' = "Panic" /\ panicked' = TRUE
    /\ tick' = NoTick
    /\ T_start' = accumulated_time /\ T' = 0
    /\ scenario' = -1
    /\ outcome' = "Panic" /\ UNCHANGED <<manual, first_ok>>
    /\ UNCHANGED <<driver, now, debug_assertions, lastOp, err, retval, ghost,
                   measured, count>>

\* tick(): the `Rendering` arm; fails says whether the consumer's render
\* returns an error.
tick_Rendering(fails) ==
    /\ tick.live /\ tick.state = "Rendering"
    /\ IF ~remainder_assert(remainder_value) THEN tick_Rendering_panic
       ELSE IF fails THEN \E e \in ErrVals : tick_Rendering_err(e)
       ELSE tick_Rendering_ok

\* remainder() taking whole intervals off the accumulator before dividing.
remainder_normalises ==
    /\ Callable
    /\ lastOp' = "remainder"
    /\ err' = NoErr
    /\ accumulated_time' = accumulated_time % update_interval
    /\ ret' = "Value"
    /\ retval' = F32Div(as_secs_f32(accumulated_time % update_interval),
                        as_secs_f32(update_interval))
    /\ UNCHANGED <<hist, state, update_interval, previous_tick, tick, now,
                   build, ghost, sums, count, scenario>>

\* GameLoop::remainder called from outside tick.
remainder ==
    /\ Callable
    /\ lastOp' = "remainder"
    /\ err' = NoErr
    /\ IF remainder_assert(remainder_value)
       THEN /\ ret' = "Value" /\ retval' = remainder_value
            /\ UNCHANGED panicked
       ELSE /\ ret' = "Panic" /\ panicked' = TRUE
            /\ UNCHANGED retval
    /\ UNCHANGED <<hist, driver, tick, now, debug_assertions, ghost, sums, count,
                   scenario>>

\* GameLoop::state, the caller reading the consumer through the reference.
state_ref ==
    /\ Callable
    /\ lastOp' = "state" /\ ret' = "Ref" /\ err' = NoErr
    /\ retval' = F32Zero
    /\ UNCHANGED <<hist, driver, tick, now, build, ghost, sums, count, scenario>>

\* The scenario advances at add_accumulated_time(add).
scenario_add(add) ==
    IF \/ scenario = 0 /\ add = from_millis(10)
       \/ scenario = 2 /\ add = from_millis(6)
       \/ scenario = 4 /\ add = from_millis(16)
    THEN scenario + 1 ELSE -1

\* add_accumulated_time assigning instead of adding.
add_accumulated_time_assigns(add) ==
    /\ Callable
    /\ adds' = adds + 1
    /\ accumulated_time' = add
    /\ T' = T + add
    /\ lastOp' = "add_accumulated_time" /\ ret' = "Unit" /\ err' = NoErr
    /\ retval' = F32Zero
    /\ scenario' = scenario_add(add)
    /\ manual' = manual + add /\ UNCHANGED <<outcome, first_ok>>
    /\ UNCHANGED <<state, update_interval, previous_tick, tick, now, build,
                   ghost, T_start, measured, steps, advances>>

\* add_accumulated_time running the updates the new total allows.
add_accumulated_time_drains(add) ==
    /\ Callable
    /\ adds' = adds + 1
    /\ accumulated_time' = (accumulated_time + add) % update_interval
    /\ state' = [state EXCEPT
                    !.update = @ + (accumulated_time + add) \div update_interval]
    /\ T' = T + add
    /\ lastOp' = "add_accumulated_time" /\ ret' = "Unit" /\ err' = NoErr
    /\ retval' = F32Zero
    /\ scenario' = scenario_add(add)
    /\ manual' = manual + add /\ UNCHANGED <<outcome, first_ok>>
    /\ UNCHANGED <<update_interval, previous_tick, tick, now, build, ghost,
                   T_start, measured, steps, advances>>

\* GameLoop::add_accumulated_time
add_accumulated_time(add) ==
    /\ Callable
    /\ adds' = adds + 1
    /\ accumulated_time' = accumulated_time + add
    /\ T' = T + add
    /\ lastOp' = "add_accumulated_time" /\ ret' = "Unit" /\ err' = NoErr
    /\ retval' = F32Zero
    /\ scenario' = scenario_add(add)
    /\ manual' = manual + add /\ UNCHANGED <<outcome, first_ok>>
    /\ UNCHANGED <<state, update_interval, previous_tick, tick, now, build,
                   ghost, T_start, measured, steps, advances>>

\* Any program: every method, any argument, a consumer that may fail.
Next ==
    \/ advances < MaxAdvances /\ \E d \in AdvanceSet : Advance(d)
    \/ steps < MaxSteps /\ tick_begin
    \/ tick_Idle
    \/ tick_Updating_ok
    \/ \E e \in ErrVals : tick_Updating_err(e)
    \/ tick_Updating_done
    \/ \E fails \in BOOLEAN : tick_Rendering(fails)
    \/ remainder
    \/ state_ref
    \/ adds < MaxAdds /\ \E add \in AddSet : add_accumulated_time(add)

Spec == Init /\ [][Next]_vars

\* The program of test_game_loop_tick_drains_accumulated_time (add 10ms, tick,
\* add 6ms, tick, add 16ms, tick on a fresh loop, its consumer never failing),
\* reading the remainder between the calls, on a moving clock.
NextScenario ==
    \/ advances < MaxAdvances /\ \E d \in AdvanceSet : Advance(d)
    \/ scenario \in {1, 3, 5} /\ tick_begin
    \/ tick_Idle
    \/ tick_Updating_ok
    \/ tick_Updating_done
    \/ tick_Rendering(FALSE)
    \/ scenario \in {2, 4, 6} /\ remainder
    \/ \E add \in ScenarioAddSet :
          scenario_add(add) # -1 /\ add_accumulated_time(add)

SpecScenario == Init /\ [][NextScenario]_vars

\* A running tick takes its next step: tick runs on the calling thread until
\* it returns, every consumer call returning.
TickStep ==
    \/ tick_Idle
    \/ tick_Updating_ok
    \/ \E e \in ErrVals : tick_Updating_err(e)
    \/ tick_Updating_done
    \/ \E fails \in BOOLEAN : tick_Rendering(fails)

SpecFair == Spec /\ WF_vars(TickStep)

\* A program that only calls tick, its consumer failing or not, on a moving
\* clock: all time the accumulator gets is elapsed time.
NextClock ==
    \/ advances < MaxAdvances /\ \E d \in AdvanceSet : Advance(d)
    \/ steps < MaxTicks /\ tick_begin
    \/ tick_Idle
    \/ tick_Updating_ok
    \/ \E e \in ErrVals : tick_Updating_err(e)
    \/ tick_Updating_done
    \/ \E fails \in BOOLEAN : tick_Rendering(fails)

SpecClock == Init /\ [][NextClock]_vars

\* ----------------------------------------------------------------- claims
\* Consumer calls of the running or last tick.
UpdateCalls == Cardinality({i \in DOMAIN calls : calls[i].op = "update"})
RenderCalls == Cardinality({i \in DOMAIN calls : calls[i].op = "render"})
Failed == {i \in DOMAIN calls : calls[i].err # "none"}
\* The last call was tick and it has returned (Ok or Err).
Returned == lastOp = "tick" /\ ~tick.live /\ ~panicked
ReturnedOk == lastOp = "tick" /\ ret = "Ok"
\* This step is the return of a successful tick.
ReturnsOk == tick.live /\ ~tick'.live /\ ret' = "Ok"
\* The decimal literal n/d as an f32 (n, d small integers).
Dec(n, d) == F32Div(as_f32(n), as_f32(d))
Abs(x) == IF x < 0 THEN -x ELSE x
\* The f32 r is num/den up to the rounding of four f32 operations.
Approx(r, num, den) ==
    IF r.m = 0 THEN num = 0
    ELSE /\ r.e <= 0
         /\ BitLen(num) - r.e <= 30
         /\ LET x == num * 2^(-r.e)
            IN Abs(den * r.m - x) <= x \div 2^22
Millis(d) == d \div from_millis(1)

\* C1: a tick that returns success has called update zero or more times and
\* then render exactly once, no update after the render.
C1_UpdatesThenOneRender ==
    ReturnedOk =>
        /\ Len(calls) >= 1
        /\ calls[Len(calls)].op = "render"
        /\ \A i \in 1..(Len(calls) - 1) : calls[i].op = "update"

C1_Witness ==
    ReturnedOk /\ UpdateCalls >= 2 /\ prev0.some /\ elapsed > 0

C3_FractionInRange ==
    ReturnedOk =>
        /\ 0 <= accumulated_time
        /\ accumulated_time < update_interval
        /\ ~F32Lt(remainder_value, F32Zero)
        /\ F32Lt(remainder_value, F32One)

C3_Witness ==
    /\ ReturnedOk /\ acc0 >= update_interval /\ elapsed > 0
    /\ accumulated_time > 0

C5_ErrorTaggedAndUnchanged ==
    (lastOp = "tick") =>
        /\ ret = "Err" => Failed # {}
        /\ \A i \in Failed :
              /\ i = Len(calls)
              /\ ret = "Err"
              /\ err.tag = (IF calls[i].op = "update" THEN "Update"
                                                      ELSE "Render")
              /\ err.val = calls[i].err
        /\ ret = "Ok" => err = NoErr

C5_Witness ==
    /\ lastOp = "tick" /\ ret = "Err" /\ err = [tag |-> "Render", val |-> "e2"]
    /\ UpdateCalls >= 1

\* C6 as stated: a tick called with zero accumulated time calls render once
\* and update never.
C6_Original ==
    (Returned /\ acc0 = 0) => (UpdateCalls = 0 /\ RenderCalls = 1)

\* C6 amended: a tick called with zero accumulated time that measures less
\* than one update_interval of elapsed time (none without a previous tick)
\* calls render once and update never.
C6_ZeroTimeRendersOnce ==
    (Returned /\ acc0 = 0 /\ elapsed < update_interval) =>
        (UpdateCalls = 0 /\ RenderCalls = 1)

C6_Witness ==
    /\ Returned /\ acc0 = 0 /\ prev0.some /\ elapsed = from_millis(4)
    /\ RenderCalls = 1

C9_Value ==
    (lastOp = "remainder" /\ ret = "Value") =>
        /\ Approx(retval, Millis(accumulated_time), Millis(update_interval))
        /\ accumulated_time = from_millis(9) => retval = Dec(9, 10)

C9_RemainderReadsOnly ==
    []C9_Value /\ [][lastOp' = "remainder" => UNCHANGED driver]_vars

C9_Witness ==
    /\ lastOp = "remainder" /\ ret = "Value" /\ steps = 0 /\ adds = 1
    /\ accumulated_time = from_millis(9) /\ retval = Dec(9, 10)

\* C10: the first tick adds no elapsed time; a tick adds elapsed time only
\* in its Idle arm, before any update, once, only when a previous tick is
\* recorded, and then the time from that tick's start to the clock reading.
C10_ElapsedAddedOnceFromPreviousTick ==
    [][tick.live =>
          /\ (tick.state = "Idle" /\ tick' # tick) =>
                /\ calls = <<>>
                /\ accumulated_time' = accumulated_time +
                      (IF previous_tick.some
                       THEN now - previous_tick.started_at ELSE 0)
          /\ tick.state # "Idle" =>
                /\ accumulated_time' <= accumulated_time
                /\ tick'.live => tick'.state # "Idle"
          /\ steps = 1 =>
                /\ ~previous_tick.some
                /\ tick.state = "Idle" => accumulated_time' = accumulated_time
       ]_vars

C10_Witness ==
    /\ tick.live /\ tick.state = "Updating" /\ calls = <<>>
    /\ prev0.some /\ elapsed > 0 /\ acc0 > 0
    /\ accumulated_time = acc0 + elapsed

\* C11: previous_tick becomes the record of the running tick, with the start
\* timestamp that tick took from the clock, exactly at a return of Ok; every
\* other step, a return of Err included, leaves previous_tick as it is.
C11_PreviousTickOnSuccessOnly ==
    [][/\ (~tick.live /\ tick'.live) => tick'.started_at = now
       /\ (tick.live /\ tick'.live) => tick'.started_at = tick.started_at
       /\ IF tick.live /\ ~tick'.live /\ ret' = "Ok"
          THEN /\ previous_tick'.some
               /\ previous_tick'.started_at = tick.started_at
          ELSE previous_tick' = previous_tick
      ]_vars

C11_Witness ==
    /\ lastOp = "tick" /\ ret = "Err" /\ err.tag = "Render"
    /\ prev0.some /\ previous_tick = prev0
    /\ now > previous_tick.started_at

\* C12: whenever no tick is running every phase marker the loop holds, the
\* one of the record kept as previous_tick included, is Idle.
C12_PhaseIdleOutsideTick ==
    ~tick.live =>
        /\ tick.state = "Idle"
        /\ previous_tick.some => previous_tick.state = "Idle"

\* C13: a new loop has accumulated_time 0 and no previous tick, and
\* update_interval is 10ms then and after every call, failed or not.
C13_ConstructionAndFixedInterval ==
    /\ update_interval = from_millis(10)
    /\ lastOp = "new" =>
          /\ accumulated_time = 0
          /\ previous_tick = None
          /\ state = [update |-> 0, render |-> 0]

C13_Witness ==
    /\ lastOp = "tick" /\ ret = "Err" /\ steps = 2 /\ adds = 2
    /\ outcome = "Update" /\ update_interval = from_millis(10)

\* C14: after a tick failed in update the accumulator still holds the failed
\* slot, accumulated_time >= update_interval, and the next tick calls update
\* before it renders or returns, with no time added in between.
C14_Slot ==
    /\ (~tick.live /\ outcome = "Update") =>
          accumulated_time >= update_interval
    /\ (tick.live /\ outcome = "Update") =>
          /\ (tick.state # "Idle" /\ calls = <<>>) =>
                /\ tick.state = "Updating"
                /\ accumulated_time >= update_interval
          /\ calls # <<>> => calls[1].op = "update"

C14_FailedSlotRetried ==
    /\ []C14_Slot
    /\ [][(tick.live /\ outcome = "Update" /\ ~tick'.live) =>
             (calls' # <<>> /\ calls'[1].op = "update")]_vars

C14_Witness ==
    /\ tick.live /\ outcome = "Update" /\ T = 0 /\ elapsed = 0
    /\ tick.state = "Updating" /\ Len(calls) = 1 /\ calls[1].op = "update"

\* C15: the intervals the successful updates consumed plus the accumulated
\* time are all the time ever added, by add_accumulated_time and by the
\* ticks' elapsed time; after a successful tick the number of updates so far
\* is the whole intervals in the total added.
C15_TimeConserved ==
    /\ state.update * update_interval + accumulated_time = manual + measured
    /\ ReturnedOk => state.update = (manual + measured) \div update_interval

C15_Witness ==
    /\ lastOp = "tick" /\ ret = "Err" /\ err.tag = "Render"
    /\ measured > 0 /\ manual > 0 /\ state.update >= 1
    /\ accumulated_time > 0

\* C16: the elapsed times the ticks have added sum to no more than the real
\* time passed since the start of the first successful tick.
C16_ElapsedAtMostRealTime ==
    measured <= (IF first_ok = -1 THEN 0 ELSE now - first_ok)

\* C17: when tick is about to call render accumulated_time is below
\* update_interval, the remainder it passes is accumulated_time /
\* update_interval below 1.0 and the assertion of remainder holds; tick never
\* ends in a failed assertion, whatever was added before it.
C17_RenderGetsValidRemainder ==
    /\ (tick.live /\ tick.state = "Rendering") =>
          /\ accumulated_time < update_interval
          /\ F32Lt(remainder_value, F32One)
          /\ remainder_assert(remainder_value)
          /\ Approx(remainder_value, Millis(accumulated_time),
                    Millis(update_interval))
    /\ lastOp = "tick" =>
          /\ ret # "Panic"
          /\ RenderCalls > 0 =>
                (RenderCalls = 1 /\ accumulated_time < update_interval)

C17_Witness ==
    /\ tick.live /\ tick.state = "Rendering" /\ debug_assertions
    /\ acc0 >= update_interval /\ T >= update_interval /\ ~prev0.some

\* C18: a running tick returns; it calls update at most as many times as
\* whole intervals were in the accumulator after the elapsed time was added,
\* every successful update takes one interval off, and accumulated_time is
\* never negative.
C18_Bounded ==
    lastOp = "tick" =>
        /\ accumulated_time >= 0
        /\ UpdateCalls <= (acc0 + elapsed) \div update_interval
        /\ tick.state # "Idle" =>
              accumulated_time = acc0 + elapsed -
                 Cardinality({i \in DOMAIN calls :
                     calls[i] = [op |-> "update", err |-> "none"]})
                 * update_interval

C18_TickTerminates ==
    /\ []C18_Bounded
    /\ tick.live ~> ~tick.live

C18_Witness ==
    /\ Returned /\ UpdateCalls >= 3 /\ RenderCalls = 1

\* C19: add_accumulated_time(d) adds exactly d to accumulated_time, leaves
\* the consumer, previous_tick and update_interval as they are and calls
\* neither update nor render; accumulated_time changes in no step other than
\* a step of tick or of add_accumulated_time.
C19_AddOnlyAdds ==
    [][/\ adds' # adds =>
             /\ \E d \in AddSet \cup ScenarioAddSet :
                   /\ accumulated_time' = accumulated_time + d
                   /\ manual' = manual + d
             /\ UNCHANGED <<state, previous_tick, update_interval, calls>>
             /\ ~tick'.live
       /\ accumulated_time' # accumulated_time =>
             (tick.live \/ adds' # adds)
      ]_vars

C19_Witness ==
    /\ lastOp = "add_accumulated_time" /\ previous_tick.some
    /\ T_start > 0 /\ accumulated_time = T_start + T /\ state.update >= 1

====
